---- MODULE Spec2Model ----
(***************************************************************************)
(* Model of the anomaly detection engine of src/ai/anomaly_detector.py:    *)
(* the AnomalyDetector class (construction, add_historical_data,           *)
(* detect_zscore_anomaly, detect_iqr_anomaly, detect_all) and its helpers. *)
(*                                                                         *)
(* Numbers.  Observations and probe values are integers.  Every quantity   *)
(* the detector derives from them is a real number of the form             *)
(* (a + b*sqrt(d)) / n with integer a, b, d >= 0, n > 0; it is kept as the *)
(* record [a, b, d, n] and compared exactly (SgnSurd), so that the mean,   *)
(* the population standard deviation, the interpolated percentiles and the *)
(* thresholds are the values the code computes, read over the reals.       *)
(* Thresholds are kept in hundredths (3.0 * 0.7 is 210).                   *)
(*                                                                         *)
(* Lists.  add_historical_data stores the caller's list object itself, so  *)
(* lists are objects: heap maps the identity of a list to its present      *)
(* content, historical_data maps a metric to the identity of the list the  *)
(* detector holds for it, and last_passed[m] is the identity of the list   *)
(* the caller passed in its latest add_historical_data call for m.  The    *)
(* caller still holds the lists it passed and can change them in place     *)
(* (CallerMutates).  A list that neither the detector nor the caller's     *)
(* latest calls refer to is dropped from heap.                             *)
(*                                                                         *)
(* Threads.  A detect_all call that runs while another caller registers   *)
(* series is taken step by step: thread holds the step it is at (the       *)
(* z-score or the IQR call of one input item), the content of the store    *)
(* when it was called, and whether a registration has happened since.  In  *)
(* every other use detect_all is one step and thread stays NoThread.       *)
(*                                                                         *)
(* Strings.  A formatted number is the record of its sign, its rounded     *)
(* digits and its number of decimals (Fixed); the alert text of            *)
(* format_alert and the recommendation sentence are records of the pieces  *)
(* the f-string puts together.  The timestamp of a report                  *)
(* (datetime.now()) is one token: the clock is not modelled.               *)
(***************************************************************************)
EXTENDS Integers, Sequences, FiniteSets, TLC

VARIABLES z_threshold, iqr_multiplier, heap, historical_data, last_passed,
          mutations, call, result, consulted, thread

vars == <<z_threshold, iqr_multiplier, heap, historical_data, last_passed,
          mutations, call, result, consulted, thread>>

(***************************************************************************)
(* Bounds of the model and constants of the program                        *)
(***************************************************************************)
\* longest series the caller registers or supplies
MaxLen == 11
\* number of in-place changes the caller makes to lists it has passed
MaxMutations == 1
\* len(data) < 10: the fewest observations that are judged
MinPoints == 10
\* scale of the thresholds (hundredths) and of a percentile rank
Hundred == 100

\* an optional argument or result: None is <<>>, a value x is <<x>>
None == <<>>
Some(x) == <<x>>

Metrics == {"daily_revenue", "store_visits"}
KnownMetrics == {"daily_revenue", "transaction_count", "avg_order_value", "category_sales"}

(***************************************************************************)
(* Integer helpers                                                         *)
(***************************************************************************)
Abs(x) == IF x < 0 THEN -x ELSE x

Sgn(x) == IF x > 0 THEN 1 ELSE IF x < 0 THEN -1 ELSE 0

RECURSIVE SumSeq(_)
SumSeq(s) == IF s = <<>> THEN 0 ELSE Head(s) + SumSeq(Tail(s))

RECURSIVE SumSq(_)
SumSq(s) == IF s = <<>> THEN 0 ELSE Head(s) * Head(s) + SumSq(Tail(s))

RECURSIVE Insert(_, _)
Insert(x, s) ==
  IF s = <<>> THEN <<x>>
  ELSE IF x <= Head(s) THEN <<x>> \o s
  ELSE <<Head(s)>> \o Insert(x, Tail(s))

RECURSIVE Sort(_)
Sort(s) == IF s = <<>> THEN <<>> ELSE Insert(Head(s), Sort(Tail(s)))

(***************************************************************************)
(* Exact reals (a + b*sqrt(d)) / n                                         *)
(***************************************************************************)
Num(a, b, d, n) == [a |-> a, b |-> b, d |-> d, n |-> n]

Rat(a, n) == Num(a, 0, 0, n)

RECURSIVE GCD(_, _)
GCD(x, y) == IF y = 0 THEN x ELSE GCD(y, x % y)

\* sign of A + B*sqrt(d)
SgnSurd(A, B, d) ==
  IF B = 0 \/ d = 0 THEN Sgn(A)
  ELSE IF A = 0 THEN Sgn(B)
  ELSE IF Sgn(A) = Sgn(B) THEN Sgn(A)
  ELSE IF A * A > B * B * d THEN Sgn(A)
  ELSE IF A * A < B * B * d THEN Sgn(B)
  ELSE 0

\* sign of x - y; x and y share d whenever both have an irrational part
\* (the common factor of the two coefficients does not change the sign)
Cmp(x, y) ==
  LET A == x.a * y.n - y.a * x.n
      B == x.b * y.n - y.b * x.n
      g == GCD(Abs(A), Abs(B))
  IN IF g = 0 THEN 0
     ELSE SgnSurd(A \div g, B \div g, IF x.b # 0 THEN x.d ELSE y.d)

Lt(x, y) == Cmp(x, y) < 0
Gt(x, y) == Cmp(x, y) > 0
Le(x, y) == Cmp(x, y) <= 0
NumEq(x, y) == Cmp(x, y) = 0

(***************************************************************************)
(* Rational arithmetic (b = 0), results in lowest terms                    *)
(***************************************************************************)
Reduce(a, n) ==
  LET g == GCD(Abs(a), n) IN Rat(a \div g, n \div g)

FromInt(v) == Rat(v, 1)
RatAdd(x, y) == Reduce(x.a * y.n + y.a * x.n, x.n * y.n)
RatSub(x, y) == Reduce(x.a * y.n - y.a * x.n, x.n * y.n)
RatMul(x, y) == Reduce(x.a * y.a, x.n * y.n)
RatAbs(x) == Rat(Abs(x.a), x.n)

\* x / y on numpy float64 operands: a zero divisor yields inf, -inf or nan
\* (with a RuntimeWarning), never an exception
Finite(x) == [kind |-> "finite", val |-> x]
NotFinite(k) == [kind |-> k, val |-> FromInt(0)]

\* x / y on Python floats: a zero divisor raises ZeroDivisionError (an
\* operation that raises is carried as a value of kind "raised", which the
\* operations applied to it hand on)
FloatDiv_python(x, y) ==
  IF y.a = 0
  THEN NotFinite("raised")
  ELSE Finite(Reduce(x.a * y.n * Sgn(y.a), x.n * Abs(y.a)))

FloatDiv(x, y) ==
  IF y.a = 0
  THEN NotFinite(IF x.a > 0 THEN "inf" ELSE IF x.a < 0 THEN "-inf" ELSE "nan")
  ELSE Finite(Reduce(x.a * y.n * Sgn(y.a), x.n * Abs(y.a)))

FloatMul(f, x) ==
  IF f.kind = "finite" THEN Finite(RatMul(f.val, x))
  ELSE IF f.kind = "nan" \/ x.a = 0 THEN NotFinite("nan")
  ELSE IF x.a > 0 THEN f
  ELSE NotFinite(IF f.kind = "inf" THEN "-inf" ELSE "inf")

FloatAbs(f) ==
  IF f.kind = "finite" THEN Finite(RatAbs(f.val))
  ELSE IF f.kind = "nan" THEN f ELSE NotFinite("inf")

\* f > 0 as Python evaluates it: False for nan
FloatPositive(f) == f.kind = "inf" \/ (f.kind = "finite" /\ f.val.a > 0)
FloatNegative(f) == f.kind = "-inf" \/ (f.kind = "finite" /\ f.val.a < 0)

(***************************************************************************)
(* Formatting of numbers in f-strings                                      *)
(***************************************************************************)
\* the largest r with r * r <= d
IntSqrt(d) == CHOOSE r \in 0 .. d : r * r <= d /\ (r + 1) * (r + 1) > d

\* the largest integer not above x
Floor(x) ==
  IF x.b = 0 \/ x.d = 0 THEN x.a \div x.n
  ELSE LET r  == IntSqrt(x.d)
           lo == (x.a + (IF x.b > 0 THEN x.b * r ELSE x.b * (r + 1))) \div x.n
           hi == (x.a + (IF x.b > 0 THEN x.b * (r + 1) ELSE x.b * r)) \div x.n
       IN CHOOSE k \in lo .. hi : Le(FromInt(k), x) /\ Lt(x, FromInt(k + 1))

\* the integer nearest to x, the even one of the two when x is half-way
Round(x) ==
  LET k == Floor(x)
      c == Cmp(x, Rat(2 * k + 1, 2))
  IN IF c < 0 THEN k
     ELSE IF c > 0 THEN k + 1
     ELSE IF k % 2 = 0 THEN k ELSE k + 1

\* 10^decimals
RECURSIVE Pow10(_)
Pow10(decimals) == IF decimals = 0 THEN 1 ELSE 10 * Pow10(decimals - 1)

\* format(x, ".<decimals>f"), or ",.<decimals>f" when grouped: the sign, and
\* the digits of x rounded to the given number of decimals (digits is the
\* rounded magnitude times 10^decimals, so 15.00 is digits 1500 with
\* decimals 2); grouped digits are written with thousands separators
Fixed(x, decimals, grouped) ==
  LET s == Pow10(decimals)
  IN [neg      |-> Lt(x, FromInt(0)),
      digits   |-> Abs(Round(Num(s * x.a, s * x.b, x.d, x.n))),
      decimals |-> decimals,
      grouped  |-> grouped,
      text     |-> "number"]

\* the same format of a float that may be inf or nan
FloatFixed(f, decimals, grouped) ==
  IF f.kind = "finite" THEN Fixed(f.val, decimals, grouped)
  ELSE [neg |-> f.kind = "-inf", digits |-> 0, decimals |-> decimals,
        grouped |-> grouped,
        text |-> IF f.kind = "nan" THEN "nan" ELSE "inf"]

(***************************************************************************)
(* numpy statistics of a non-empty list of integers                        *)
(***************************************************************************)
\* np.mean
mean(data) == Reduce(SumSeq(data), Len(data))

\* n^2 times the population variance: n * sum(x^2) - sum(x)^2
VarNum(data) == Len(data) * SumSq(data) - SumSeq(data) * SumSeq(data)

\* np.std (ddof = 0): sqrt(VarNum) / n
std(data) == Num(0, 1, VarNum(data), Len(data))

\* np.percentile(data, q), linear interpolation between the ranked
\* observations at the virtual index (n - 1) * q / 100
percentile(data, q) ==
  LET sorted == Sort(data)
      pos    == (Len(data) - 1) * q
      i      == pos \div Hundred
      r      == pos % Hundred
  IN IF r = 0 THEN FromInt(sorted[i + 1])
     ELSE Reduce(Hundred * sorted[i + 1] + r * (sorted[i + 2] - sorted[i + 1]),
                 Hundred)

\* np.median: the middle observation, or the mean of the two middle ones
median(data) ==
  LET sorted == Sort(data)
      n      == Len(data)
      h      == n \div 2
  IN IF n % 2 = 1 THEN FromInt(sorted[h + 1])
     ELSE Reduce(sorted[h] + sorted[h + 1], 2)

(***************************************************************************)
(* AnomalyDetector.__init__                                                *)
(***************************************************************************)
\* multiplier = 1.0 whatever the sensitivity
sensitivity_map_flat(sensitivity) == 10

\* sensitivity_map.get(sensitivity, 0.7)
sensitivity_map_default_low(sensitivity) ==
  IF sensitivity = "medium" THEN 10
  ELSE IF sensitivity = "high" THEN 13
  ELSE 7

\* sensitivity_map.get(sensitivity, 1.0), in tenths
sensitivity_map(sensitivity) ==
  IF sensitivity = "low" THEN 7
  ELSE IF sensitivity = "high" THEN 13
  ELSE 10

\* base thresholds are given in tenths (3.0 is 30); the scaled thresholds
\* are kept in hundredths
init(z, k, sensitivity) ==
  [z_threshold    |-> z * sensitivity_map(sensitivity),
   iqr_multiplier |-> k * sensitivity_map(sensitivity)]

(***************************************************************************)
(* _calculate_severity and _generate_recommendation                        *)
(***************************************************************************)
\* score >= 5, >= 4, >= 3
calculate_severity_inclusive(score) ==
  IF Le(FromInt(5), score) THEN "critical"
  ELSE IF Le(FromInt(4), score) THEN "high"
  ELSE IF Le(FromInt(3), score) THEN "medium"
  ELSE "low"

calculate_severity(score) ==
  IF Gt(score, FromInt(5)) THEN "critical"
  ELSE IF Gt(score, FromInt(4)) THEN "high"
  ELSE IF Gt(score, FromInt(3)) THEN "medium"
  ELSE "low"

\* direction = "increase" if deviation_pct >= 0 else "decrease"
generate_recommendation_zero_increases(metric, deviation_pct) ==
  [template  |-> IF metric \in KnownMetrics THEN metric ELSE "generic",
   direction |-> IF FloatNegative(deviation_pct) THEN "decrease" ELSE "increase",
   abs_pct   |-> FloatFixed(FloatAbs(deviation_pct), 1, FALSE)]

\* the sentence returned: the template selected by the metric (the fallback
\* of recommendations.get is "generic"), filled with the direction and with
\* {abs_pct:.1f}
generate_recommendation(metric, deviation_pct) ==
  [template  |-> IF metric \in KnownMetrics THEN metric ELSE "generic",
   direction |-> IF FloatPositive(deviation_pct) THEN "increase" ELSE "decrease",
   abs_pct   |-> FloatFixed(FloatAbs(deviation_pct), 1, FALSE)]

(***************************************************************************)
(* The history store: a dict from metric names to list objects             *)
(***************************************************************************)
\* d[key] = value on a dict d
Put(d, key, value) ==
  [k \in DOMAIN d \cup {key} |-> IF k = key THEN value ELSE d[k]]

Range(d) == {d[k] : k \in DOMAIN d}

\* self.historical_data.get(metric, []): the content of the list held
get(store, metric) == IF metric \in DOMAIN store THEN heap[store[metric]] ELSE <<>>

\* `historical or self.historical_data.get(metric, [])`: None and the empty
\* list are both falsy
resolve(historical, metric) ==
  IF historical # None /\ Len(historical[1]) > 0
  THEN historical[1]
  ELSE get(historical_data, metric)

(***************************************************************************)
(* detect_zscore_anomaly                                                   *)
(***************************************************************************)
\* datetime.now().isoformat(): the capture time, one token for every report
Now == "now"

AnomalyReport(type, severity, metric, value, lower, upper, deviation_pct) ==
  [timestamp      |-> Now,
   anomaly_type   |-> type,
   severity       |-> severity,
   metric         |-> metric,
   actual_value   |-> value,
   expected_range |-> <<lower, upper>>,
   deviation_pct  |-> deviation_pct,
   recommendation |-> generate_recommendation(metric, deviation_pct)]

\* abs(value - mean) / std for std > 0:
\* |n*value - sum| / sqrt(VarNum) = |n*value - sum| * sqrt(VarNum) / VarNum
z_score(value, data) ==
  Num(0, Abs(Len(data) * value - SumSeq(data)), VarNum(data), VarNum(data))

\* ((value - center) / value) * 100
deviation_over_value(value, center) ==
  FloatMul(FloatDiv(RatSub(FromInt(value), center), FromInt(value)), FromInt(Hundred))

\* ((value - center) / center) * 100
deviation(value, center) ==
  FloatMul(FloatDiv(RatSub(FromInt(value), center), center), FromInt(Hundred))

\* an infinite z-score is reported (numpy: x / 0.0 is inf, and inf > threshold)
zscore_judged_no_std_check(value, metric, data) ==
  IF VarNum(data) = 0 /\ Len(data) * value # SumSeq(data)
  THEN Some(AnomalyReport(
         "Z-Score Outlier", "critical", metric, value,
         mean(data), mean(data), deviation(value, mean(data))))
  ELSE IF VarNum(data) # 0 /\ Gt(z_score(value, data), Rat(z_threshold, Hundred))
  THEN Some(AnomalyReport(
         "Z-Score Outlier", calculate_severity(z_score(value, data)), metric, value,
         Num(SumSeq(data), -2, VarNum(data), Len(data)),
         Num(SumSeq(data), 2, VarNum(data), Len(data)),
         deviation(value, mean(data))))
  ELSE None

\* z_score >= self.z_threshold
zscore_judged_at_threshold(value, metric, data) ==
  IF VarNum(data) # 0 /\ ~Lt(z_score(value, data), Rat(z_threshold, Hundred))
  THEN Some(AnomalyReport(
         "Z-Score Outlier", calculate_severity(z_score(value, data)), metric, value,
         Num(SumSeq(data), -2, VarNum(data), Len(data)),
         Num(SumSeq(data), 2, VarNum(data), Len(data)),
         deviation(value, mean(data))))
  ELSE None

\* expected_range=(mean - z_threshold*std, mean + z_threshold*std)
zscore_judged_range_by_threshold(value, metric, data) ==
  IF VarNum(data) = 0 THEN None
  ELSE
    LET z == z_score(value, data)
    IN IF Gt(z, Rat(z_threshold, Hundred))
       THEN Some(AnomalyReport(
              "Z-Score Outlier",
              calculate_severity(z),
              metric, value,
              Num(Hundred * SumSeq(data), 0 - z_threshold, VarNum(data), Hundred * Len(data)),
              Num(Hundred * SumSeq(data), z_threshold, VarNum(data), Hundred * Len(data)),
              deviation(value, mean(data))))
       ELSE None

\* severity = self._calculate_severity(z_score - self.z_threshold)
zscore_judged_severity_of_excess(value, metric, data) ==
  IF VarNum(data) = 0 THEN None
  ELSE
    LET z == z_score(value, data)
    IN IF Gt(z, Rat(z_threshold, Hundred))
       THEN Some(AnomalyReport(
              "Z-Score Outlier",
              calculate_severity(Num(0 - z_threshold * z.n, Hundred * z.b, z.d,
                                     Hundred * z.n)),
              metric, value,
              Num(SumSeq(data), -2, VarNum(data), Len(data)),
              Num(SumSeq(data), 2, VarNum(data), Len(data)),
              deviation(value, mean(data))))
       ELSE None

\* detect_zscore_anomaly on a series that has enough observations
zscore_judged(value, metric, data) ==
  IF VarNum(data) = 0 THEN None
  ELSE
    LET z == z_score(value, data)
    IN IF Gt(z, Rat(z_threshold, Hundred))
       THEN Some(AnomalyReport(
              "Z-Score Outlier",
              calculate_severity(z),
              metric, value,
              Num(SumSeq(data), -2, VarNum(data), Len(data)),
              Num(SumSeq(data), 2, VarNum(data), Len(data)),
              deviation(value, mean(data))))
       ELSE None

\* len(data) <= 10
zscore_verdict_off_by_one(value, metric, data) ==
  IF Len(data) <= MinPoints THEN None ELSE zscore_judged(value, metric, data)

\* the body of detect_zscore_anomaly once the series is resolved
zscore_verdict(value, metric, data) ==
  IF Len(data) < MinPoints THEN None ELSE zscore_judged(value, metric, data)

detect_zscore_anomaly(value, metric, historical) ==
  zscore_verdict(value, metric, resolve(historical, metric))

(***************************************************************************)
(* detect_iqr_anomaly                                                      *)
(***************************************************************************)
\* min(abs(value - lower_bound), abs(value - upper_bound))
distance(value, lower_bound, upper_bound) ==
  LET dl == RatAbs(RatSub(FromInt(value), lower_bound))
      du == RatAbs(RatSub(FromInt(value), upper_bound))
  IN IF Le(dl, du) THEN dl ELSE du

\* distance / iqr if iqr > 0 else distance
iqr_score_of_distance(dist, iqr) ==
  IF iqr.a > 0 THEN Reduce(dist.a * iqr.n, dist.n * iqr.a) ELSE dist

\* distance / iqr if iqr > 0 else 0
iqr_score(dist, iqr) ==
  IF iqr.a > 0 THEN Reduce(dist.a * iqr.n, dist.n * iqr.a) ELSE FromInt(0)

\* value <= lower_bound or value >= upper_bound
iqr_judged_bounds_excluded(value, metric, data) ==
  LET q1 == percentile(data, 25)
      q3 == percentile(data, 75)
      iqr == RatSub(q3, q1)
      lower_bound == RatSub(q1, RatMul(Rat(iqr_multiplier, Hundred), iqr))
      upper_bound == RatAdd(q3, RatMul(Rat(iqr_multiplier, Hundred), iqr))
  IN IF Le(FromInt(value), lower_bound) \/ Le(upper_bound, FromInt(value))
     THEN Some(AnomalyReport(
            "IQR Outlier",
            calculate_severity(iqr_score(distance(value, lower_bound, upper_bound), iqr)),
            metric, value,
            lower_bound, upper_bound,
            deviation(value, median(data))))
     ELSE None

\* expected_range=(q1, q3)
iqr_judged_range_quartiles(value, metric, data) ==
  LET q1 == percentile(data, 25)
      q3 == percentile(data, 75)
      iqr == RatSub(q3, q1)
      lower_bound == RatSub(q1, RatMul(Rat(iqr_multiplier, Hundred), iqr))
      upper_bound == RatAdd(q3, RatMul(Rat(iqr_multiplier, Hundred), iqr))
  IN IF Lt(FromInt(value), lower_bound) \/ Gt(FromInt(value), upper_bound)
     THEN Some(AnomalyReport(
            "IQR Outlier",
            calculate_severity(iqr_score(distance(value, lower_bound, upper_bound), iqr)),
            metric, value,
            q1, q3,
            deviation(value, median(data))))
     ELSE None

\* detect_iqr_anomaly on a series that has enough observations
iqr_judged(value, metric, data) ==
  LET q1 == percentile(data, 25)
      q3 == percentile(data, 75)
      iqr == RatSub(q3, q1)
      lower_bound == RatSub(q1, RatMul(Rat(iqr_multiplier, Hundred), iqr))
      upper_bound == RatAdd(q3, RatMul(Rat(iqr_multiplier, Hundred), iqr))
  IN IF Lt(FromInt(value), lower_bound) \/ Gt(FromInt(value), upper_bound)
     THEN Some(AnomalyReport(
            "IQR Outlier",
            calculate_severity(iqr_score(distance(value, lower_bound, upper_bound), iqr)),
            metric, value,
            lower_bound, upper_bound,
            deviation(value, median(data))))
     ELSE None

\* the body of detect_iqr_anomaly once the series is resolved
iqr_verdict(value, metric, data) ==
  IF Len(data) < MinPoints THEN None ELSE iqr_judged(value, metric, data)

detect_iqr_anomaly(value, metric, historical) ==
  iqr_verdict(value, metric, resolve(historical, metric))

(***************************************************************************)
(* detect_all: current_values is the dict's items in iteration order, a    *)
(* sequence of <<metric, value>> pairs with distinct metrics.  The result  *)
(* carries, next to the list of anomalies, the detection methods the loop  *)
(* called, in order.                                                       *)
(***************************************************************************)
\* the loop body without its `continue`
detect_step_no_continue(acc, metric, value) ==
  [anomalies |-> acc.anomalies \o detect_zscore_anomaly(value, metric, None)
                   \o detect_iqr_anomaly(value, metric, None),
   calls     |-> acc.calls \o <<(<<"zscore", metric>>), (<<"iqr", metric>>)>>]

\* the loop body trying the IQR method first
detect_step_iqr_first(acc, metric, value) ==
  LET z_anomaly == detect_zscore_anomaly(value, metric, None)
      iqr_anomaly == detect_iqr_anomaly(value, metric, None)
  IN IF iqr_anomaly # None
     THEN [anomalies |-> acc.anomalies \o iqr_anomaly,
           calls     |-> Append(acc.calls, <<"iqr", metric>>)]
     ELSE [anomalies |-> acc.anomalies \o z_anomaly,
           calls     |-> acc.calls \o <<(<<"iqr", metric>>), (<<"zscore", metric>>)>>]

\* the loop body with anomalies.insert(0, ...) for anomalies.append(...)
detect_step_prepend(acc, metric, value) ==
  LET z_anomaly == detect_zscore_anomaly(value, metric, None)
      iqr_anomaly == detect_iqr_anomaly(value, metric, None)
  IN IF z_anomaly # None
     THEN [anomalies |-> z_anomaly \o acc.anomalies,
           calls     |-> Append(acc.calls, <<"zscore", metric>>)]
     ELSE [anomalies |-> iqr_anomaly \o acc.anomalies,
           calls     |-> acc.calls \o <<(<<"zscore", metric>>), (<<"iqr", metric>>)>>]

\* one iteration of the loop body for (metric, value), from the state acc
detect_step(acc, metric, value) ==
  LET z_anomaly == detect_zscore_anomaly(value, metric, None)
      iqr_anomaly == detect_iqr_anomaly(value, metric, None)
  IN IF z_anomaly # None
     THEN [anomalies |-> acc.anomalies \o z_anomaly,
           calls     |-> Append(acc.calls, <<"zscore", metric>>)]
     ELSE [anomalies |-> acc.anomalies \o iqr_anomaly,
           calls     |-> acc.calls \o <<(<<"zscore", metric>>), (<<"iqr", metric>>)>>]

RECURSIVE detect_loop(_, _)
detect_loop(acc, items) ==
  IF items = <<>> THEN acc
  ELSE detect_loop(detect_step(acc, Head(items)[1], Head(items)[2]), Tail(items))

detect_all(current_values) ==
  detect_loop([anomalies |-> <<>>, calls |-> <<>>], current_values)

(***************************************************************************)
(* format_alert                                                            *)
(***************************************************************************)
\* emoji_map.get(severity.upper(), default)
emoji_map_upper_keys(severity) == "chart"

\* emoji_map.get(severity, default): the four markers are four different
\* strings (named here siren, warning, chart, info), the default is the
\* marker of medium
emoji_map(severity) ==
  IF severity = "critical" THEN "siren"
  ELSE IF severity = "high" THEN "warning"
  ELSE IF severity = "medium" THEN "chart"
  ELSE IF severity = "low" THEN "info"
  ELSE "chart"

\* str.upper() of a severity name
upper(severity) ==
  CASE severity = "critical" -> "CRITICAL"
    [] severity = "high"     -> "HIGH"
    [] severity = "medium"   -> "MEDIUM"
    [] severity = "low"      -> "LOW"

\* the pieces of the alert text, in the order of the f-string
format_alert(anomaly) ==
  [marker         |-> emoji_map(anomaly.severity),
   headline       |-> upper(anomaly.severity),
   metric         |-> anomaly.metric,
   actual         |-> Fixed(FromInt(anomaly.actual_value), 2, TRUE),
   expected       |-> <<Fixed(anomaly.expected_range[1], 2, TRUE),
                        Fixed(anomaly.expected_range[2], 2, TRUE)>>,
   deviation      |-> FloatFixed(anomaly.deviation_pct, 1, FALSE),
   type           |-> anomaly.anomaly_type,
   recommendation |-> anomaly.recommendation,
   detected       |-> anomaly.timestamp]

(***************************************************************************)
(* Inputs: the series the caller registers or supplies, the probe values   *)
(* and the detector configurations                                         *)
(***************************************************************************)
\* x, y, x, y, ... (n values)
RECURSIVE Alt(_, _, _)
Alt(n, x, y) ==
  IF n = 0 THEN <<>> ELSE Append(Alt(n - 1, x, y), IF n % 2 = 1 THEN x ELSE y)

\* y, x, x, x, ... (n values): one observation away from the rest
RECURSIVE Spike(_, _, _)
Spike(n, x, y) ==
  IF n = 0 THEN <<>> ELSE IF n = 1 THEN <<y>> ELSE Append(Spike(n - 1, x, y), x)

SeriesOf(lens, alts, spikes) ==
  {Alt(n, s[1], s[2]) : n \in lens, s \in alts}
    \cup {Spike(n, s[1], s[2]) : n \in lens, s \in spikes}

\* registered by the caller: the empty list and spread, constant and spiked
\* series of the fewest observations that are judged
Pool == SeriesOf({0, MinPoints}, {<<4, 2>>, <<2, 2>>}, {<<2, 12>>})

\* supplied as the history argument of a detection call
Supplied == SeriesOf({0, MinPoints}, {<<1, -1>>}, {})

Probes == {3, 9}

\* values the caller appends to a list it has passed
Appended == {12}

Sensitivities == {"low", "medium", "high", "extreme"}

\* constructor arguments: the defaults z_threshold=3.0, iqr_multiplier=1.5
\* with every sensitivity
Configs == {init(30, 15, s) : s \in Sensitivities}

\* the items of a dict over Metrics with values in Probes, in each order
Items ==
  {<<>>}
    \cup {<<(<<m, v>>)>> : m \in Metrics, v \in Probes}
    \cup {<<(<<p[1], v[1]>>), (<<p[2], v[2]>>)>> :
            p \in {q \in Metrics \X Metrics : q[1] # q[2]},
            v \in Probes \X Probes}

\* every length up to MaxLen, with zero and negative means as well
WidePool ==
  SeriesOf(0 .. MaxLen, {<<4, 2>>, <<2, 2>>, <<1, -1>>, <<-1, -3>>}, {<<2, 12>>})

WideSupplied == SeriesOf(0 .. MaxLen, {<<1, -1>>}, {})

WideProbes == {-1, 3, 6, 7, 9}

\* constructor arguments other than the defaults are accepted unchecked
WideConfigs ==
  {init(z, k, s) : z \in {30}, k \in {15, -10}, s \in Sensitivities}

(***************************************************************************)
(* State machine                                                           *)
(***************************************************************************)
Call(op, metric, value, historical, items) ==
  [op |-> op, metric |-> metric, value |-> value,
   historical |-> historical, items |-> items]

Idle == Call("idle", "", 0, None, <<>>)

\* no detect_all call is running step by step
NoThread == [step |-> "none", item |-> 0, before |-> <<>>, interleaved |-> FALSE]

\* the state after construction
Init ==
  /\ \E c \in Configs :
       /\ z_threshold = c.z_threshold
       /\ iqr_multiplier = c.iqr_multiplier
  /\ heap = <<>>
  /\ historical_data = <<>>
  /\ last_passed = <<>>
  /\ mutations = 0
  /\ call = Idle
  /\ result = <<>>
  /\ consulted = <<>>
  /\ thread = NoThread

\* self.historical_data.setdefault(metric, values)
add_historical_data_keep_first(store, metric, values) ==
  IF metric \in DOMAIN store THEN store ELSE Put(store, metric, values)

\* self.historical_data = {metric: values}
add_historical_data_reset(store, metric, values) == Put(<<>>, metric, values)

\* self.historical_data[metric] = values, values being a list object
add_historical_data(store, metric, values) == Put(store, metric, values)

\* the identity of a list the caller newly creates
NewList == CHOOSE i \in 1 .. Cardinality(DOMAIN heap) + 1 : i \notin DOMAIN heap

\* the caller passes the list object id, whose content is values (a new list
\* when id = NewList, else a list it has passed before)
Register(metric, id, values) ==
  /\ call = Idle
  /\ LET store == add_historical_data(historical_data, metric, id)
         passed == Put(last_passed, metric, id)
         lists == Put(heap, id, values)
     IN /\ historical_data' = store
        /\ last_passed' = passed
        /\ heap' = [i \in DOMAIN lists \cap (Range(store) \cup Range(passed)) |-> lists[i]]
  /\ call' = Call("add_historical_data", metric, 0, Some(values), <<>>)
  /\ result' = <<>>
  /\ consulted' = <<>>
  /\ UNCHANGED <<thread, z_threshold, iqr_multiplier, mutations>>

RegisterNew(metric, values) == Register(metric, NewList, values)

RegisterSame(metric, id) ==
  /\ id \in DOMAIN heap
  /\ IF metric \in DOMAIN historical_data THEN historical_data[metric] # id ELSE TRUE
  /\ Register(metric, id, heap[id])

\* the caller changes, in place, a list it has passed:
\* values.append(v), values.pop() or values.clear()
Mutated(values) ==
  {Append(values, v) : v \in IF Len(values) < MaxLen THEN Appended ELSE {}}
    \cup (IF Len(values) > 0 THEN {SubSeq(values, 1, Len(values) - 1)} ELSE {})
    \cup (IF Len(values) > 0 THEN {<<>>} ELSE {})

CallerMutates(id, values) ==
  /\ call = Idle
  /\ id \in DOMAIN heap
  /\ mutations < MaxMutations
  /\ values \in Mutated(heap[id])
  /\ heap' = [heap EXCEPT ![id] = values]
  /\ mutations' = mutations + 1
  /\ UNCHANGED <<thread, z_threshold, iqr_multiplier, historical_data, last_passed,
                 call, result, consulted>>

DetectZscore(value, metric, historical) ==
  /\ call = Idle
  /\ call' = Call("detect_zscore_anomaly", metric, value, historical, <<>>)
  /\ result' = detect_zscore_anomaly(value, metric, historical)
  /\ consulted' = <<>>
  /\ UNCHANGED <<thread, z_threshold, iqr_multiplier, heap, historical_data, last_passed, mutations>>

DetectIqr(value, metric, historical) ==
  /\ call = Idle
  /\ call' = Call("detect_iqr_anomaly", metric, value, historical, <<>>)
  /\ result' = detect_iqr_anomaly(value, metric, historical)
  /\ consulted' = <<>>
  /\ UNCHANGED <<thread, z_threshold, iqr_multiplier, heap, historical_data, last_passed, mutations>>

DetectAll(current_values) ==
  /\ call = Idle
  /\ LET out == detect_all(current_values)
     IN /\ result' = out.anomalies
        /\ consulted' = out.calls
  /\ call' = Call("detect_all", "", 0, None, current_values)
  /\ UNCHANGED <<thread, z_threshold, iqr_multiplier, heap, historical_data, last_passed, mutations>>

\* the caller has read the returned value and drops it
CallerTakesResult ==
  /\ call # Idle
  /\ call' = Idle
  /\ result' = <<>>
  /\ consulted' = <<>>
  /\ UNCHANGED <<thread, z_threshold, iqr_multiplier, heap, historical_data, last_passed, mutations>>

Histories == {None} \cup {Some(s) : s \in Supplied}

Next ==
  \/ \E m \in Metrics, s \in Pool : RegisterNew(m, s)
  \/ \E m \in Metrics, i \in DOMAIN heap : RegisterSame(m, i)
  \/ \E i \in DOMAIN heap : \E s \in Mutated(heap[i]) : CallerMutates(i, s)
  \/ \E v \in Probes, m \in Metrics, h \in Histories : DetectZscore(v, m, h)
  \/ \E v \in Probes, m \in Metrics, h \in Histories : DetectIqr(v, m, h)
  \/ \E cv \in Items : DetectAll(cv)
  \/ CallerTakesResult

Spec == Init /\ [][Next]_vars

(***************************************************************************)
(* The two detection methods as functions of their inputs: a detector of   *)
(* any accepted configuration, holding one series for daily_revenue, is    *)
(* asked about probe values with and without a history argument.           *)
(***************************************************************************)
InitFn ==
  /\ \E c \in WideConfigs :
       /\ z_threshold = c.z_threshold
       /\ iqr_multiplier = c.iqr_multiplier
  /\ \E s \in WidePool : heap = Put(<<>>, 1, s)
  /\ historical_data = Put(<<>>, "daily_revenue", 1)
  /\ last_passed = Put(<<>>, "daily_revenue", 1)
  /\ mutations = 0
  /\ call = Idle
  /\ result = <<>>
  /\ consulted = <<>>
  /\ thread = NoThread

WideHistories == {None} \cup {Some(s) : s \in WideSupplied}

NextFn ==
  \/ \E v \in WideProbes, m \in Metrics, h \in WideHistories : DetectZscore(v, m, h)
  \/ \E v \in WideProbes, m \in Metrics, h \in WideHistories : DetectIqr(v, m, h)
  \/ CallerTakesResult

SpecFn == InitFn /\ [][NextFn]_vars

(***************************************************************************)
(* Properties                                                              *)
(***************************************************************************)
IsZscoreCall == call.op = "detect_zscore_anomaly"
IsIqrCall == call.op = "detect_iqr_anomaly"
IsAllCall == call.op = "detect_all"

\* the series a detection call is evaluated on
Data == resolve(call.historical, call.metric)

\* |value - mean| / std > z_threshold on a series of non-zero deviation,
\* over the integers: 100^2 * (n*value - sum)^2 > z_threshold^2 * VarNum
ZExceeds(value, data) ==
  LET dev == Len(data) * value - SumSeq(data)
  IN /\ VarNum(data) > 0
     /\ \/ z_threshold < 0
        \/ Hundred * Hundred * dev * dev > z_threshold * z_threshold * VarNum(data)

ZAtThreshold(value, data) ==
  LET dev == Len(data) * value - SumSeq(data)
  IN /\ VarNum(data) > 0
     /\ z_threshold >= 0
     /\ Hundred * Hundred * dev * dev = z_threshold * z_threshold * VarNum(data)

\* a percentile in hundredths (the interpolation weights are hundredths)
PercentileH(data, q) == (percentile(data, q).a * Hundred) \div percentile(data, q).n

\* value < Q1 - k*IQR or value > Q3 + k*IQR, in units of 1/10000
IqrOutside(value, data) ==
  LET q1 == PercentileH(data, 25)
      q3 == PercentileH(data, 75)
  IN \/ Hundred * Hundred * value < Hundred * q1 - iqr_multiplier * (q3 - q1)
     \/ Hundred * Hundred * value > Hundred * q3 + iqr_multiplier * (q3 - q1)

IsConstant(data) == \A i, j \in 1 .. Len(data) : data[i] = data[j]

\* C1: the list detect_all returns holds at most one report per metric of
\* its input, so never a z-score and an IQR report for the same metric.
C1_OneReportPerMetric ==
  IsAllCall =>
    \A i, j \in 1 .. Len(result) : result[i].metric = result[j].metric => i = j

\* detect_all returned a z-score report for a metric whose value the IQR
\* method reports as well
C1_Witness ==
  /\ IsAllCall
  /\ \E i \in 1 .. Len(result) :
       /\ result[i].anomaly_type = "Z-Score Outlier"
       /\ detect_iqr_anomaly(result[i].actual_value, result[i].metric, None) # None

\* C2: a detection call evaluated on fewer than 10 observations returns no
\* verdict whatever the probe value, and exactly 10 observations are judged:
\* a probe beyond the threshold is then reported.
C2_FewerThanTenNoVerdict ==
  (IsZscoreCall \/ IsIqrCall) =>
    /\ Len(Data) < MinPoints => result = None
    /\ (IsZscoreCall /\ Len(Data) = MinPoints /\ ZExceeds(call.value, Data))
         => result # None
    /\ (IsIqrCall /\ Len(Data) = MinPoints /\ IqrOutside(call.value, Data))
         => result # None

\* no verdict on a 9-observation series for a probe that the same method
\* reports once the series has 10 observations
C2_Witness ==
  /\ IsZscoreCall
  /\ Len(Data) = MinPoints - 1
  /\ result = None
  /\ zscore_judged(call.value, call.metric, Append(Data, Data[1])) # None

\* C3 (as claimed): a history argument, even an empty one, decides the
\* verdict, and the registered series is ignored.
C3_SuppliedHistoryDecides ==
  /\ (IsZscoreCall /\ call.historical # None)
       => result = zscore_verdict(call.value, call.metric, call.historical[1])
  /\ (IsIqrCall /\ call.historical # None)
       => result = iqr_verdict(call.value, call.metric, call.historical[1])

\* C4 (as claimed): every report has expected_range.lower <= upper, whatever
\* the configuration.
C4_RangeOrdered ==
  \A i \in 1 .. Len(result) :
    Le(result[i].expected_range[1], result[i].expected_range[2])

\* C5: detect_zscore reports exactly when the series has at least 10 values,
\* a non-zero deviation and |value - mean| / std strictly above z_threshold;
\* detect_iqr reports exactly when the series has at least 10 values and the
\* value lies strictly outside [Q1 - k*IQR, Q3 + k*IQR].
C5_ReportOnlyBeyondThreshold ==
  /\ IsZscoreCall =>
       (result # None <=> (Len(Data) >= MinPoints /\ ZExceeds(call.value, Data)))
  /\ IsIqrCall =>
       (result # None <=> (Len(Data) >= MinPoints /\ IqrOutside(call.value, Data)))

\* a z-score equal to the threshold gave no verdict
C5_Witness ==
  /\ IsZscoreCall
  /\ Len(Data) >= MinPoints
  /\ ZAtThreshold(call.value, Data)
  /\ result = None

Contribution(metric, value) ==
  IF zscore_verdict(value, metric, get(historical_data, metric)) # None
  THEN zscore_verdict(value, metric, get(historical_data, metric))
  ELSE iqr_verdict(value, metric, get(historical_data, metric))

RECURSIVE Composed(_)
Composed(items) ==
  IF items = <<>> THEN <<>>
  ELSE Contribution(Head(items)[1], Head(items)[2]) \o Composed(Tail(items))

\* C7: detect_all returns, item by item, the z-score report on the registered
\* series if there is one, else the IQR report if there is one, else nothing;
\* the IQR method is consulted for a metric exactly when the z-score method
\* gave no verdict, and an unregistered metric contributes nothing.
C7_ZscorePriority ==
  IsAllCall =>
    /\ result = Composed(call.items)
    /\ \A k \in 1 .. Len(call.items) :
         LET m == call.items[k][1]
             v == call.items[k][2]
         IN /\ <<"zscore", m>> \in Range(consulted)
            /\ <<"iqr", m>> \in Range(consulted)
                 <=> zscore_verdict(v, m, get(historical_data, m)) = None
            /\ m \notin DOMAIN historical_data
                 => \A i \in 1 .. Len(result) : result[i].metric # m

\* one call returned a z-score report for one metric and an IQR report for
\* another
C7_Witness ==
  /\ IsAllCall
  /\ \E i, j \in 1 .. Len(result) :
       /\ result[i].anomaly_type = "Z-Score Outlier"
       /\ result[j].anomaly_type = "IQR Outlier"

RECURSIVE IsSubsequence(_, _)
IsSubsequence(s, t) ==
  IF s = <<>> THEN TRUE
  ELSE IF t = <<>> THEN FALSE
  ELSE IF Head(s) = Head(t) THEN IsSubsequence(Tail(s), Tail(t))
  ELSE IsSubsequence(s, Tail(t))

RECURSIVE Reported(_)
Reported(reports) ==
  IF reports = <<>> THEN <<>>
  ELSE <<(<<Head(reports).metric, Head(reports).actual_value>>)>>
         \o Reported(Tail(reports))

\* C8: the reports of detect_all are in the order of the input mapping: their
\* (metric, actual_value) pairs are a subsequence of the input items, and
\* there is one for each item that has a verdict.
C8_InputOrder ==
  IsAllCall =>
    /\ IsSubsequence(Reported(result), call.items)
    /\ Len(result) =
         Cardinality({k \in 1 .. Len(call.items) :
                        Contribution(call.items[k][1], call.items[k][2]) # None})

\* two reports, for an input whose key order is not the alphabetical one
C8_Witness ==
  /\ IsAllCall
  /\ Len(result) = 2
  /\ call.items[1][1] = "store_visits"

\* C9: a detection call without a history argument is evaluated on the list
\* passed by the latest add_historical_data call for that metric: a later
\* registration replaces the earlier one.
C9_LatestRegistrationUsed ==
  ((IsZscoreCall \/ IsIqrCall) /\ call.historical = None) =>
    LET latest == IF call.metric \in DOMAIN last_passed
                  THEN heap[last_passed[call.metric]] ELSE <<>>
    IN result = IF IsZscoreCall
                THEN zscore_verdict(call.value, call.metric, latest)
                ELSE iqr_verdict(call.value, call.metric, latest)

\* a report computed on a list that replaced an earlier registration: the
\* list was created while each metric already held one
C9_Witness ==
  /\ IsZscoreCall
  /\ call.historical = None
  /\ call.metric \in DOMAIN last_passed
  /\ last_passed[call.metric] > Cardinality(Metrics)
  /\ result # None

\* the series the detector holds for a metric
Held(m) == get(historical_data, m)

\* C10 (as claimed): the series held for a metric changes only in an
\* add_historical_data call for that metric.
C10_OnlyRegistrationChangesSeries ==
  [][\A m \in Metrics :
       Held(m)' # Held(m)
         => (call'.op = "add_historical_data" /\ call'.metric = m)]_vars

(***************************************************************************)
(* Construction.  AnomalyDetector(z_threshold, iqr_multiplier, sensitivity)*)
(* is called with base thresholds (in tenths) of either sign and with      *)
(* sensitivity names inside and outside sensitivity_map; the state after   *)
(* construction records the call, with the sensitivity in call.metric and  *)
(* the two base thresholds in call.items.  The detector is then used on    *)
(* supplied histories.                                                     *)
(***************************************************************************)
ZBases == {-10, 0, 15, 30}
KBases == {-10, 0, 15}
CtorSensitivities == Sensitivities \cup {"LOW", ""}

InitCtor ==
  /\ \E z \in ZBases, k \in KBases, s \in CtorSensitivities :
       /\ z_threshold = init(z, k, s).z_threshold
       /\ iqr_multiplier = init(z, k, s).iqr_multiplier
       /\ call = Call("__init__", s, 0, None, <<z, k>>)
  /\ heap = <<>>
  /\ historical_data = <<>>
  /\ last_passed = <<>>
  /\ mutations = 0
  /\ result = <<>>
  /\ consulted = <<>>
  /\ thread = NoThread

CtorHistories == {Some(s) : s \in Pool \ {<<>>}}

NextCtor ==
  \/ \E v \in Probes, h \in CtorHistories : DetectZscore(v, "daily_revenue", h)
  \/ \E v \in Probes, h \in CtorHistories : DetectIqr(v, "daily_revenue", h)
  \/ CallerTakesResult

SpecCtor == InitCtor /\ [][NextCtor]_vars

IsCtorCall == call.op = "__init__"
ZBase == call.items[1]
KBase == call.items[2]

\* the thresholds of the three detectors built from the bases of this call
Low == init(ZBase, KBase, "low")
Medium == init(ZBase, KBase, "medium")
High == init(ZBase, KBase, "high")

\* C11 (as claimed): for any shared base, the low detector has a strictly
\* smaller z threshold than the medium detector, and the medium detector a
\* strictly smaller one than the high detector; likewise for the IQR
\* multiplier.
C11_OrderedForAnyBase ==
  IsCtorCall =>
    /\ Low.z_threshold < Medium.z_threshold
    /\ Medium.z_threshold < High.z_threshold
    /\ Low.iqr_multiplier < Medium.iqr_multiplier
    /\ Medium.iqr_multiplier < High.iqr_multiplier

\* C11 (amended): the scaled thresholds are the base times 0.7, 1.0 and 1.3,
\* and each is strictly ordered low < medium < high when its base is
\* positive.
C11_OrderedForPositiveBase ==
  IsCtorCall =>
    /\ 10 * Low.z_threshold = 7 * Medium.z_threshold
    /\ 10 * High.z_threshold = 13 * Medium.z_threshold
    /\ 10 * Low.iqr_multiplier = 7 * Medium.iqr_multiplier
    /\ 10 * High.iqr_multiplier = 13 * Medium.iqr_multiplier
    /\ call.metric = "medium" =>
          z_threshold = 10 * ZBase /\ iqr_multiplier = 10 * KBase
    /\ ZBase > 0 =>
          /\ Low.z_threshold < Medium.z_threshold
          /\ Medium.z_threshold < High.z_threshold
    /\ KBase > 0 =>
          /\ Low.iqr_multiplier < Medium.iqr_multiplier
          /\ Medium.iqr_multiplier < High.iqr_multiplier

\* a low detector built from positive bases, below the medium one
C11_Witness ==
  /\ IsCtorCall
  /\ call.metric = "low"
  /\ ZBase > 0 /\ KBase > 0
  /\ z_threshold < Medium.z_threshold
  /\ iqr_multiplier < Medium.iqr_multiplier

\* C12: a sensitivity outside low, medium, high is accepted, and the
\* detector has the base thresholds, as the medium detector has.
C12_UnknownSensitivityIsMedium ==
  (IsCtorCall /\ call.metric \notin {"low", "medium", "high"}) =>
    /\ z_threshold = 10 * ZBase
    /\ iqr_multiplier = 10 * KBase
    /\ z_threshold = Medium.z_threshold
    /\ iqr_multiplier = Medium.iqr_multiplier

C12_Witness ==
  /\ IsCtorCall
  /\ call.metric = "extreme"
  /\ z_threshold = 300
  /\ iqr_multiplier = 150

(***************************************************************************)
(* Every operation of a detector: registration, the three detection        *)
(* methods, format_alert on a report a detection call has returned, and    *)
(* direct calls of _calculate_severity and _generate_recommendation.  The  *)
(* argument of format_alert, the score and the deviation are recorded in   *)
(* call.items.                                                             *)
(***************************************************************************)
FormatAlert(anomaly) ==
  /\ call.op \in {"detect_zscore_anomaly", "detect_iqr_anomaly", "detect_all"}
  /\ call' = Call("format_alert", "", 0, None, <<anomaly>>)
  /\ result' = <<format_alert(anomaly)>>
  /\ consulted' = <<>>
  /\ UNCHANGED <<thread, z_threshold, iqr_multiplier, heap, historical_data, last_passed, mutations>>

CalculateSeverity(score) ==
  /\ call = Idle
  /\ call' = Call("_calculate_severity", "", 0, None, <<score>>)
  /\ result' = <<calculate_severity(score)>>
  /\ consulted' = <<>>
  /\ UNCHANGED <<thread, z_threshold, iqr_multiplier, heap, historical_data, last_passed, mutations>>

GenerateRecommendation(metric, deviation_pct) ==
  /\ call = Idle
  /\ call' = Call("_generate_recommendation", metric, 0, None, <<deviation_pct>>)
  /\ result' = <<generate_recommendation(metric, deviation_pct)>>
  /\ consulted' = <<>>
  /\ UNCHANGED <<thread, z_threshold, iqr_multiplier, heap, historical_data, last_passed, mutations>>

\* largest score, in tenths, given to _calculate_severity
MaxScore == 60

Scores == {Rat(t, 10) : t \in 0 .. MaxScore}

Deviations ==
  {Finite(Rat(-200, 3)), Finite(Rat(-1, 20)), Finite(FromInt(0)),
   Finite(Rat(1, 20)), Finite(Rat(25, 2)), Finite(FromInt(250)),
   NotFinite("inf"), NotFinite("-inf"), NotFinite("nan")}

CallsMetrics == KnownMetrics \cup Metrics

\* the third series has an irrational standard deviation
CallsPool ==
  {Alt(MinPoints, 4, 2), Alt(MinPoints, 1, -1), Alt(MinPoints + 1, 4, 2)}

CallsProbes == {3, 6, 7, 8, 9}

CallsItems ==
  {<<(<<m, v>>)>> : m \in Metrics, v \in CallsProbes}
    \cup {<<(<<"store_visits", 9>>), (<<"daily_revenue", 8>>)>>}

NextCalls ==
  \/ \E m \in Metrics, s \in CallsPool : RegisterNew(m, s)
  \/ \E m \in Metrics, i \in DOMAIN heap : RegisterSame(m, i)
  \/ \E v \in CallsProbes, m \in Metrics : DetectZscore(v, m, None)
  \/ \E v \in CallsProbes, m \in Metrics : DetectIqr(v, m, None)
  \/ \E cv \in CallsItems : DetectAll(cv)
  \/ \E i \in DOMAIN result : FormatAlert(result[i])
  \/ \E x \in Scores : CalculateSeverity(x)
  \/ \E m \in CallsMetrics, d \in Deviations : GenerateRecommendation(m, d)
  \/ CallerTakesResult

SpecCalls == Init /\ [][NextCalls]_vars

Argument == call.items[1]
Returned == result[1]

Rank(severity) ==
  CASE severity = "low"      -> 0
    [] severity = "medium"   -> 1
    [] severity = "high"     -> 2
    [] severity = "critical" -> 3

\* C13: the severity of a score is critical above 5, high above 4, medium
\* above 3 and low otherwise, the scores 3, 4 and 5 themselves falling in
\* the lower tier; no smaller score has a higher severity.
C13_SeverityMonotoneStrict ==
  call.op = "_calculate_severity" =>
    /\ Returned = (IF Argument.a > 5 * Argument.n THEN "critical"
                   ELSE IF Argument.a > 4 * Argument.n THEN "high"
                   ELSE IF Argument.a > 3 * Argument.n THEN "medium"
                   ELSE "low")
    /\ Argument = Rat(30, 10) => Returned = "low"
    /\ Argument = Rat(40, 10) => Returned = "medium"
    /\ Argument = Rat(50, 10) => Returned = "high"
    /\ \A x \in Scores :
         Argument.a >= x.a => Rank(Returned) >= Rank(calculate_severity(x))

C13_Witness ==
  /\ call.op = "_calculate_severity"
  /\ Argument = Rat(40, 10)
  /\ Returned = "medium"

\* C18: the recommendation names "increase" exactly when the deviation is
\* above zero and "decrease" otherwise, gives the absolute percentage to one
\* decimal, and uses the template of the metric for the four known metrics
\* and the generic template for every other name.
C18_RecommendationDirection ==
  call.op = "_generate_recommendation" =>
    /\ Returned.direction =
         (IF Argument.kind = "inf" \/ (Argument.kind = "finite" /\ Argument.val.a > 0)
          THEN "increase" ELSE "decrease")
    /\ Returned.template =
         (IF call.metric \in {"daily_revenue", "transaction_count",
                              "avg_order_value", "category_sales"}
          THEN call.metric ELSE "generic")
    /\ ~Returned.abs_pct.neg
    /\ Returned.abs_pct.decimals = 1
    /\ Argument.kind = "finite" =>
         Abs(20 * Abs(Argument.val.a) - 2 * Returned.abs_pct.digits * Argument.val.n)
           <= Argument.val.n
    /\ Argument.kind # "finite" =>
         Returned.abs_pct.text = (IF Argument.kind = "nan" THEN "nan" ELSE "inf")

\* a deviation of zero on a metric outside the four known ones
C18_Witness ==
  /\ call.op = "_generate_recommendation"
  /\ Argument = Finite(FromInt(0))
  /\ call.metric = "store_visits"
  /\ Returned.direction = "decrease"
  /\ Returned.template = "generic"

\* the number a formatted text stands for, times 10^decimals
Signed(f) == IF f.neg THEN 0 - f.digits ELSE f.digits

\* f is x written with two decimals
ShowsToCents(f, x) ==
  /\ f.decimals = 2
  /\ f.text = "number"
  /\ Le(Rat(2 * Signed(f) - 1, 200), x)
  /\ Le(x, Rat(2 * Signed(f) + 1, 200))

\* C19: the alert text of a report holds the metric name, the actual value
\* and both ends of the expected range, each formatted to two decimals; its
\* marker is determined by the severity, and the markers of critical, high,
\* medium and low are four different ones.
C19_AlertContents ==
  call.op = "format_alert" =>
    /\ Returned.metric = Argument.metric
    /\ ShowsToCents(Returned.actual, FromInt(Argument.actual_value))
    /\ ShowsToCents(Returned.expected[1], Argument.expected_range[1])
    /\ ShowsToCents(Returned.expected[2], Argument.expected_range[2])
    /\ Returned.marker = emoji_map(Argument.severity)
    /\ \A s \in {"critical", "high", "medium", "low"} \ {Argument.severity} :
         emoji_map(s) # Returned.marker

C19_Witness ==
  /\ call.op = "format_alert"
  /\ Argument.severity = "high"
  /\ Argument.anomaly_type = "Z-Score Outlier"
  /\ Returned.marker = "warning"
  /\ Returned.actual.digits = 800
  /\ Returned.expected[2].digits = 508

\* C20: z_threshold and iqr_multiplier never change; detect_zscore_anomaly,
\* detect_iqr_anomaly, detect_all and format_alert leave the whole history
\* store as it is; add_historical_data(m, s) sets the entry of m to s and
\* leaves the entry of every other metric as it is.
C20_Frame ==
  [][/\ z_threshold' = z_threshold
     /\ iqr_multiplier' = iqr_multiplier
     /\ (call'.op # call.op /\ call'.op \in {"detect_zscore_anomaly", "detect_iqr_anomaly",
                                       "detect_all", "format_alert"})
          => (historical_data' = historical_data /\ heap' = heap)
     /\ (call'.op # call.op /\ call'.op = "add_historical_data")
          => /\ call'.metric \in DOMAIN historical_data'
             /\ heap'[historical_data'[call'.metric]] = call'.historical[1]
             /\ \A m \in Metrics \ {call'.metric} :
                  /\ Held(m)' = Held(m)
                  /\ (m \in DOMAIN historical_data') = (m \in DOMAIN historical_data)
    ]_vars

\* a registration made while the other metric holds a different series
C20_Witness ==
  /\ call.op = "add_historical_data"
  /\ \E m \in DOMAIN historical_data \ {call.metric} :
       /\ Held(m) # Held(call.metric)
       /\ Len(Held(m)) >= MinPoints

(***************************************************************************)
(* The scenarios of the module's example: a detector built with the        *)
(* default thresholds holds one series for daily_revenue and is asked      *)
(* about probe values.  Amounts of the revenue series are in thousands     *)
(* (45 is 45000): the z-score, the percentage deviation and the quartile   *)
(* test do not depend on the unit.                                         *)
(***************************************************************************)
\* Q1 = 30 and Q3 = 70
QuartileSeries == Alt(MinPoints, 70, 30)

\* mean 45 and standard deviation 5; the second one has Q1 = Q3 = 45
RevenueSeries ==
  {Alt(MinPoints, 50, 40), <<34, 56, 47, 43, 45, 45, 45, 45, 45, 45>>}

ScenarioPool == {QuartileSeries} \cup RevenueSeries

ScenarioProbes == {-31, -30, 15, 47, 130, 131, 150}

InitScenario ==
  /\ \E c \in Configs :
       /\ z_threshold = c.z_threshold
       /\ iqr_multiplier = c.iqr_multiplier
  /\ \E s \in ScenarioPool : heap = Put(<<>>, 1, s)
  /\ historical_data = Put(<<>>, "daily_revenue", 1)
  /\ last_passed = Put(<<>>, "daily_revenue", 1)
  /\ mutations = 0
  /\ call = Idle
  /\ result = <<>>
  /\ consulted = <<>>
  /\ thread = NoThread

NextScenario ==
  \/ \E v \in ScenarioProbes : DetectZscore(v, "daily_revenue", None)
  \/ \E v \in ScenarioProbes : DetectIqr(v, "daily_revenue", None)
  \/ \E v \in ScenarioProbes : DetectAll(<<(<<"daily_revenue", v>>)>>)
  \/ CallerTakesResult

SpecScenario == InitScenario /\ [][NextScenario]_vars

\* C14: a report of detect_iqr carries expected_range
\* (Q1 - k*IQR, Q3 + k*IQR), k being the scaled multiplier; with Q1 = 30,
\* Q3 = 70 and k = 1.5 the probe 150 is reported as an IQR Outlier with
\* expected_range (-30, 130).
C14_IqrRange ==
  IsIqrCall =>
    /\ result # None =>
         LET q1 == PercentileH(Data, 25)
             q3 == PercentileH(Data, 75)
         IN /\ NumEq(result[1].expected_range[1],
                     Rat(Hundred * q1 - iqr_multiplier * (q3 - q1), Hundred * Hundred))
            /\ NumEq(result[1].expected_range[2],
                     Rat(Hundred * q3 + iqr_multiplier * (q3 - q1), Hundred * Hundred))
    /\ (/\ iqr_multiplier = 150
        /\ PercentileH(Data, 25) = 3000
        /\ PercentileH(Data, 75) = 7000
        /\ call.value = 150) =>
         /\ result # None
         /\ result[1].anomaly_type = "IQR Outlier"
         /\ result[1].expected_range = <<FromInt(-30), FromInt(130)>>

C14_Witness ==
  /\ IsIqrCall
  /\ iqr_multiplier = 150
  /\ Data = QuartileSeries
  /\ call.value = 150
  /\ result # None

\* the detector of the example and a registered series with mean 45 and
\* standard deviation 5 (in thousands)
RevenueScenario ==
  /\ z_threshold = 300
  /\ iqr_multiplier = 150
  /\ call.historical = None
  /\ Len(Data) >= MinPoints
  /\ SumSeq(Data) = 45 * Len(Data)
  /\ VarNum(Data) = 25 * Len(Data) * Len(Data)

\* the report of detect_zscore_anomaly for the probe 15
RevenueReport ==
  /\ result # None
  /\ result[1].anomaly_type = "Z-Score Outlier"
  /\ result[1].actual_value = 15
  /\ result[1].deviation_pct = Finite(Rat(-200, 3))
  /\ result[1].severity = "critical"
  /\ NumEq(result[1].expected_range[1], FromInt(35))
  /\ NumEq(result[1].expected_range[2], FromInt(55))

\* C16 (as claimed): in the example scenario the probe 47 yields no verdict
\* from any detection method, and detect_zscore_anomaly reports the probe 15
\* as a critical Z-Score Outlier with deviation -66.7% and expected_range
\* (35, 55).
C16_ExampleAnyMethod ==
  RevenueScenario =>
    /\ (call.op \in {"detect_zscore_anomaly", "detect_iqr_anomaly", "detect_all"}
          /\ (call.value = 47 \/ call.items = <<(<<"daily_revenue", 47>>)>>))
         => result = None
    /\ (IsZscoreCall /\ call.value = 15) => RevenueReport

\* C16 (amended): in the example scenario detect_zscore_anomaly yields no
\* verdict for the probe 47 and reports the probe 15 as a critical Z-Score
\* Outlier with deviation -66.7% and expected_range (35, 55).
C16_ExampleZscore ==
  (RevenueScenario /\ IsZscoreCall) =>
    /\ call.value = 47 => result = None
    /\ call.value = 15 => RevenueReport

C16_Witness ==
  /\ RevenueScenario
  /\ IsZscoreCall
  /\ call.value = 15
  /\ result # None

\* value >= Q1 - k*IQR and value <= Q3 + k*IQR, in units of 1/10000
IqrWithin(value, data) ==
  LET q1 == PercentileH(data, 25)
      q3 == PercentileH(data, 75)
  IN /\ Hundred * Hundred * value >= Hundred * q1 - iqr_multiplier * (q3 - q1)
     /\ Hundred * Hundred * value <= Hundred * q3 + iqr_multiplier * (q3 - q1)

\* value is Q1 - k*IQR or Q3 + k*IQR
IqrOnBound(value, data) ==
  LET q1 == PercentileH(data, 25)
      q3 == PercentileH(data, 75)
  IN \/ Hundred * Hundred * value = Hundred * q1 - iqr_multiplier * (q3 - q1)
     \/ Hundred * Hundred * value = Hundred * q3 + iqr_multiplier * (q3 - q1)

\* C15: detect_iqr yields no verdict for a value equal to the lower bound
\* Q1 - k*IQR, equal to the upper bound Q3 + k*IQR, or between the two.
C15_BoundsInclusive ==
  (IsIqrCall /\ Len(Data) >= MinPoints /\ IqrWithin(call.value, Data))
    => result = None

\* a probe on a bound of a series with IQR > 0
C15_Witness ==
  /\ IsIqrCall
  /\ Len(Data) >= MinPoints
  /\ PercentileH(Data, 75) > PercentileH(Data, 25)
  /\ iqr_multiplier > 0
  /\ IqrOnBound(call.value, Data)
  /\ result = None

(***************************************************************************)
(* The three detection methods on degenerate histories: the detectors and  *)
(* series of SpecFn (every length from 0 to MaxLen, constant series, means *)
(* and medians of zero), with detect_all as well.                          *)
(***************************************************************************)
WideItems ==
  {<<>>}
    \cup {<<(<<m, v>>)>> : m \in Metrics, v \in WideProbes}
    \cup {<<(<<"store_visits", 3>>), (<<"daily_revenue", v>>)>> : v \in WideProbes}

NextEdge ==
  \/ \E v \in WideProbes, m \in Metrics, h \in WideHistories : DetectZscore(v, m, h)
  \/ \E v \in WideProbes, m \in Metrics, h \in WideHistories : DetectIqr(v, m, h)
  \/ \E cv \in WideItems : DetectAll(cv)
  \/ CallerTakesResult

SpecEdge == InitFn /\ [][NextEdge]_vars

IsDetectionCall == IsZscoreCall \/ IsIqrCall \/ IsAllCall

\* a report whose fields were all computed
Completed(report) ==
  /\ report.anomaly_type \in {"Z-Score Outlier", "IQR Outlier"}
  /\ report.severity \in {"low", "medium", "high", "critical"}
  /\ report.deviation_pct.kind \in {"finite", "inf", "-inf", "nan"}

\* C17: detect_zscore_anomaly and detect_iqr_anomaly end with a report or
\* with no verdict, and detect_all with a list of reports, whatever the
\* history (empty, short, constant, of mean or median zero): no step of
\* the computation raises.
C17_NoCrash ==
  IsDetectionCall =>
    /\ \A i \in DOMAIN result : Completed(result[i])
    /\ (IsZscoreCall \/ IsIqrCall) => Len(result) <= 1
    /\ IsAllCall => Len(result) <= Len(call.items)

\* a report on a series of mean zero: the deviation is a division by zero
C17_Witness ==
  /\ IsZscoreCall
  /\ Len(Data) >= MinPoints
  /\ SumSeq(Data) = 0
  /\ result # None
  /\ result[1].deviation_pct.kind \in {"inf", "-inf"}

\* the reports of a detect_all result that are about one metric
ReportsOn(metric) ==
  {result[i] : i \in {j \in DOMAIN result : result[j].metric = metric}}

\* an IQR report of severity low whose two bounds are the constant c
DegenerateReport(report, c) ==
  /\ report.anomaly_type = "IQR Outlier"
  /\ report.severity = "low"
  /\ report.expected_range = <<FromInt(c), FromInt(c)>>

OutsideRange(report) ==
  \/ Lt(FromInt(report.actual_value), report.expected_range[1])
  \/ Gt(FromInt(report.actual_value), report.expected_range[2])

\* the expected_range of a report is mean - 2 std, mean + 2 std of the series
TwoSigmaRange(report, data) ==
  /\ NumEq(report.expected_range[1],
           Num(SumSeq(data), -2, VarNum(data), Len(data)))
  /\ NumEq(report.expected_range[2],
           Num(SumSeq(data), 2, VarNum(data), Len(data)))

\* C23 (as claimed): in every report of detect_zscore and detect_iqr the
\* actual value lies strictly outside the expected range, for every
\* configuration; the range of a z-score report is mean +/- 2 std.
C23_OutsideForEveryConfig ==
  ((IsZscoreCall \/ IsIqrCall) /\ result # None) =>
    /\ OutsideRange(result[1])
    /\ IsZscoreCall => TwoSigmaRange(result[1], Data)

\* C23 (amended): the range of a z-score report is mean +/- 2 std whatever
\* the threshold; the actual value of a z-score report lies strictly outside
\* it when the scaled z_threshold is at least 2, and the actual value of an
\* IQR report lies strictly outside its range for every configuration.
C23_OutsideFromThresholdTwo ==
  ((IsZscoreCall \/ IsIqrCall) /\ result # None) =>
    /\ IsZscoreCall => TwoSigmaRange(result[1], Data)
    /\ (IsZscoreCall /\ z_threshold >= 2 * Hundred) => OutsideRange(result[1])
    /\ IsIqrCall => OutsideRange(result[1])

\* a z-score report of a detector whose scaled threshold is 2.1
C23_Witness ==
  /\ IsZscoreCall
  /\ result # None
  /\ z_threshold = 210
  /\ OutsideRange(result[1])
  /\ TwoSigmaRange(result[1], Data)

\* the central estimate a report's deviation is taken from
Center == IF IsZscoreCall THEN mean(Data) ELSE median(Data)

\* C24 (as claimed): in every report deviation_pct is positive and the
\* recommendation says "increase" exactly when the actual value is above the
\* mean (z-score) or the median (IQR) of the series, and deviation_pct is
\* negative and the recommendation says "decrease" exactly when it is below,
\* also for a negative mean or median.
C24_SignFollowsPosition ==
  ((IsZscoreCall \/ IsIqrCall) /\ result # None) =>
    /\ Gt(FromInt(call.value), Center)
         <=> (/\ FloatPositive(result[1].deviation_pct)
              /\ result[1].recommendation.direction = "increase")
    /\ Lt(FromInt(call.value), Center)
         <=> (/\ FloatNegative(result[1].deviation_pct)
              /\ result[1].recommendation.direction = "decrease")

\* |value - mean| / std <= 3 on a series of non-zero deviation, over the
\* integers: (n*value - sum)^2 <= 9 * VarNum
ZAtMostThree(value, data) ==
  LET dev == Len(data) * value - SumSeq(data)
  IN dev * dev <= 9 * VarNum(data)

\* C25: the severity of a z-score report is taken from the z-score itself
\* (low exactly when it is at most 3), so no report of detect_zscore has
\* severity low when the scaled z_threshold is at least 3; severity low
\* occurs only below that threshold.
C25_NoLowFromThresholdThree ==
  (IsZscoreCall /\ result # None) =>
    /\ result[1].severity = "low" <=> ZAtMostThree(call.value, Data)
    /\ z_threshold >= 3 * Hundred => result[1].severity # "low"
    /\ result[1].severity = "low" => z_threshold < 3 * Hundred

\* the default base 3.0 with sensitivity low: a report of severity low
C25_Witness ==
  /\ IsZscoreCall
  /\ result # None
  /\ z_threshold = 210
  /\ result[1].severity = "low"

(***************************************************************************)
(* detect_all beside another caller.  The loop of detect_all calls         *)
(* detect_zscore_anomaly and, when that gives no verdict,                  *)
(* detect_iqr_anomaly for each input item; each of the two calls looks the *)
(* metric up in historical_data when it runs.  Between two such calls      *)
(* another thread may run add_historical_data.  One registration is made   *)
(* during one detect_all call.                                             *)
(***************************************************************************)
\* the series of every registered metric
Contents == [m \in DOMAIN historical_data |-> heap[historical_data[m]]]

\* the position after the call(s) for input item i are done
Advance(i) ==
  [thread EXCEPT !.item = i + 1,
                 !.step = IF i = Len(call.items) THEN "returned" ELSE "zscore"]

\* z_anomaly = self.detect_zscore_anomaly(value, metric)
zscore_step(value, metric) == detect_zscore_anomaly(value, metric, None)

\* iqr_anomaly = self.detect_iqr_anomaly(value, metric), reading the store
\* as it was when detect_all was called
iqr_step_at_call(value, metric) ==
  iqr_verdict(value, metric,
              IF metric \in DOMAIN thread.before THEN thread.before[metric] ELSE <<>>)

\* iqr_anomaly = self.detect_iqr_anomaly(value, metric)
iqr_step(value, metric) == detect_iqr_anomaly(value, metric, None)

BeginDetectAll(current_values) ==
  /\ call = Idle
  /\ call' = Call("detect_all", "", 0, None, current_values)
  /\ result' = <<>>
  /\ consulted' = <<>>
  /\ thread' = [step        |-> IF current_values = <<>> THEN "returned" ELSE "zscore",
                item        |-> 1,
                before      |-> Contents,
                interleaved |-> FALSE]
  /\ UNCHANGED <<z_threshold, iqr_multiplier, heap, historical_data, last_passed, mutations>>

ZscoreStep ==
  /\ thread.step = "zscore"
  /\ LET metric == call.items[thread.item][1]
         value == call.items[thread.item][2]
         z_anomaly == zscore_step(value, metric)
     IN /\ consulted' = Append(consulted, <<"zscore", metric>>)
        /\ result' = result \o z_anomaly
        /\ thread' = IF z_anomaly # None
                     THEN Advance(thread.item)
                     ELSE [thread EXCEPT !.step = "iqr"]
  /\ UNCHANGED <<z_threshold, iqr_multiplier, heap, historical_data, last_passed,
                 mutations, call>>

IqrStep ==
  /\ thread.step = "iqr"
  /\ LET metric == call.items[thread.item][1]
         value == call.items[thread.item][2]
     IN /\ consulted' = Append(consulted, <<"iqr", metric>>)
        /\ result' = result \o iqr_step(value, metric)
        /\ thread' = Advance(thread.item)
  /\ UNCHANGED <<z_threshold, iqr_multiplier, heap, historical_data, last_passed,
                 mutations, call>>

\* add_historical_data(metric, values) of another thread, with a new list
RegisterConcurrently(metric, values) ==
  /\ thread.step \in {"zscore", "iqr"}
  /\ ~thread.interleaved
  /\ LET store == add_historical_data(historical_data, metric, NewList)
         passed == Put(last_passed, metric, NewList)
         lists == Put(heap, NewList, values)
     IN /\ historical_data' = store
        /\ last_passed' = passed
        /\ heap' = [i \in DOMAIN lists \cap (Range(store) \cup Range(passed)) |-> lists[i]]
  /\ thread' = [thread EXCEPT !.interleaved = TRUE]
  /\ UNCHANGED <<z_threshold, iqr_multiplier, mutations, call, result, consulted>>

\* the caller of add_historical_data goes on
RegistrationReturns ==
  /\ call.op = "add_historical_data"
  /\ CallerTakesResult

\* the caller of detect_all has read the list of anomalies
DetectAllReturns ==
  /\ thread.step = "returned"
  /\ call' = Idle
  /\ result' = <<>>
  /\ consulted' = <<>>
  /\ thread' = NoThread
  /\ UNCHANGED <<z_threshold, iqr_multiplier, heap, historical_data, last_passed, mutations>>

ThreadItems ==
  {<<(<<m, v>>)>> : m \in Metrics, v \in Probes}
    \cup {<<(<<"store_visits", 9>>), (<<"daily_revenue", 9>>)>>}

NextThreads ==
  \/ \E m \in Metrics, s \in Pool : RegisterNew(m, s)
  \/ RegistrationReturns
  \/ \E cv \in ThreadItems : BeginDetectAll(cv)
  \/ ZscoreStep
  \/ IqrStep
  \/ \E m \in Metrics, s \in Pool : RegisterConcurrently(m, s)
  \/ DetectAllReturns

SpecThreads == Init /\ [][NextThreads]_vars

\* the series a store content c holds for a metric
SeriesIn(c, metric) == IF metric \in DOMAIN c THEN c[metric] ELSE <<>>

\* what detect_all contributes for one item when its z-score call sees the
\* series a and its IQR call the series b
Mixed(metric, value, a, b) ==
  IF zscore_verdict(value, metric, a) # None
  THEN zscore_verdict(value, metric, a)
  ELSE iqr_verdict(value, metric, b)

\* the result of a detect_all call that runs alone on the store content c
RECURSIVE Serial(_, _)
Serial(c, items) ==
  IF items = <<>> THEN <<>>
  ELSE Mixed(Head(items)[1], Head(items)[2],
             SeriesIn(c, Head(items)[1]), SeriesIn(c, Head(items)[1]))
         \o Serial(c, Tail(items))

\* the results in which each call of each item saw the store content as it
\* was before or as it is after the registration, the IQR call of an item
\* never an earlier content than its z-score call
RECURSIVE Interleavings(_, _, _)
Interleavings(before, after, items) ==
  IF items = <<>> THEN {<<>>}
  ELSE LET m == Head(items)[1]
           v == Head(items)[2]
           old == SeriesIn(before, m)
           new == SeriesIn(after, m)
       IN {c \o rest :
             c \in {Mixed(m, v, old, old), Mixed(m, v, old, new), Mixed(m, v, new, new)},
             rest \in Interleavings(before, after, Tail(items))}

\* C21: each of the two calls detect_all makes for a metric reads the store
\* when it runs: a detect_all call that no registration interrupts returns
\* the result of the serial run, and one that a registration interrupts
\* returns, item by item, the z-score verdict on the series held at that
\* call, else the IQR verdict on the series held at that later call; this
\* can be a result that neither serial order gives.
C21_EachStepReadsStore ==
  thread.step = "returned" =>
    /\ ~thread.interleaved => result = Serial(thread.before, call.items)
    /\ result \in Interleavings(thread.before, Contents, call.items)

\* a returned list that is neither the result on the store before the
\* registration nor the result on the store after it, and holds an IQR
\* report on the newly registered series
C21_Witness ==
  /\ thread.step = "returned"
  /\ thread.interleaved
  /\ result # Serial(thread.before, call.items)
  /\ result # Serial(Contents, call.items)
  /\ \E i \in DOMAIN result :
       /\ result[i].anomaly_type = "IQR Outlier"
       /\ Len(SeriesIn(thread.before, result[i].metric)) >= MinPoints
       /\ iqr_verdict(result[i].actual_value, result[i].metric,
                      SeriesIn(Contents, result[i].metric)) = <<result[i]>>

====
